---- MODULE Spec2Model ----
(***************************************************************************)
(* pyannote.audio: the Yaafe feature extractors                            *)
(* (pyannote/audio/features/with_yaafe.py) and the frame arithmetic of     *)
(* SimpleSegmentationModel (pyannote/audio/models/segmentation/debug.py).  *)
(*                                                                         *)
(* Durations and steps are rationals with denominator 1000 (milliseconds), *)
(* so that sample_rate * duration is computed exactly.  Booleans used in   *)
(* arithmetic (self.e, self.D, ...) go through B2N, as Python's bool does. *)
(* The Yaafe engine and pysndfile are outside the repository: a call draws *)
(* what they answer (load failure, sample rate, channel count, rejected    *)
(* feature names) from bounded sets.                                       *)
(***************************************************************************)
EXTENDS Integers, Sequences, FiniteSets, TLC

VARIABLES
    leaves,        \* leaf id -> the ZCR / MFCC object's constructor arguments
    compound,      \* the YaafeCompound object, or NoCompound before it exists
    sample_rate_,  \* object -> self.sample_rate_ (Unset: attribute missing)
    engine_,       \* object -> what self.engine_ last loaded
    last,          \* the last operation: its inputs and what it did
    frames         \* SimpleSegmentationModel: transform config, lru_cache, last call

vars == <<leaves, compound, sample_rate_, engine_, last, frames>>

\* ---------------------------------------------------------------- bounds
NumRates == 2
MaxChannels == 2
MaxCoefs == 2
MaxChildren == 2
MaxSamples == 5
MaxHop == 3
MaxWin == 3

\* sample rates pysndfile may report, the first NumRates of them
RateTable == <<8000, 11025, 16000, 22050>>
SampleRates == {RateTable[i] : i \in 1..NumRates}

\* self.sample_rate_ not set yet (hasattr(self, 'sample_rate_') is False)
Unset == 0

\* YaafeFeatureExtractor.__init__ defaults, in milliseconds
DefaultDuration == 25
DefaultStep == 10
\* the values a caller passes: the defaults, and step=0.020
Durations == {DefaultDuration}
Steps == {DefaultStep, 2 * DefaultStep}

B2N(b) == IF b THEN 1 ELSE 0

RECURSIVE SumSeq(_)
SumSeq(s) == IF s = <<>> THEN 0 ELSE Head(s) + SumSeq(Tail(s))

RECURSIVE Flatten(_)
Flatten(ss) == IF ss = <<>> THEN <<>> ELSE Head(ss) \o Flatten(Tail(ss))

\* ---------------------------------------------------------------- recipes
\* the objects: two leaf extractors and one YaafeCompound over them
Leaf == {"a", "b"}
CompoundId == "compound"
Objects == Leaf \cup {CompoundId}
NoCompound == [exists |-> FALSE, extractors |-> <<>>,
               duration |-> 0, step |-> 0]

ZCR(duration, step) ==
    [kind |-> "ZCR", duration |-> duration, step |-> step,
     e |-> FALSE, coefs |-> 0, De |-> FALSE, DDe |-> FALSE,
     D |-> FALSE, DD |-> FALSE]

MFCC(duration, step, e, coefs, De, DDe, D, DD) ==
    [kind |-> "MFCC", duration |-> duration, step |-> step,
     e |-> e, coefs |-> coefs, De |-> De, DDe |-> DDe, D |-> D, DD |-> DD]

\* int(self.sample_rate_ * self.duration): the product truncated (rounding
\* would give the nearest integer instead)
BlockSizeRounded(sr, ms) == (2 * sr * ms + 1000) \div 2000
BlockSize(sr, ms) == (sr * ms) \div 1000

\* one (name, recipe) pair; the recipe string is kept as its fields.  A ZCR
\* recipe has no Ceps fields: they are 0 there.
Instr(name, feat, ignoreFirst, nbCoeffs, blockSize, stepSize, dOrder) ==
    [name |-> name, feat |-> feat, ignoreFirst |-> ignoreFirst,
     nbCoeffs |-> nbCoeffs, blockSize |-> blockSize, stepSize |-> stepSize,
     dOrder |-> dOrder]

ZCRDefinition(r, sr) ==
    << Instr("zcr", "ZCR", 0, 0,
             BlockSize(sr, r.duration), BlockSize(sr, r.step), 0) >>

ZCRDimension(r) == 1

MFCCDefinition(r, sr) ==
    LET blockSize == BlockSize(sr, r.duration)
        stepSize == BlockSize(sr, r.step)
        base == << Instr("mfcc", "MFCC", IF r.e THEN 0 ELSE 1,
                         r.coefs + B2N(r.e) * 1, blockSize, stepSize, 0) >>
        d1 == IF r.De \/ r.D
              THEN << Instr("mfcc_d", "MFCC", IF r.De THEN 0 ELSE 1,
                            B2N(r.D) * r.coefs + B2N(r.De) * 1,
                            blockSize, stepSize, 1) >>
              ELSE <<>>
        d2 == IF r.DDe \/ r.DD
              THEN << Instr("mfcc_dd", "MFCC", IF r.DDe THEN 0 ELSE 1,
                            B2N(r.DD) * r.coefs + B2N(r.DDe) * 1,
                            blockSize, stepSize, 2) >>
              ELSE <<>>
    IN  base \o d1 \o d2

MFCCDimensionNoDDe(r) ==
    B2N(r.e) + B2N(r.De) + r.coefs
    + r.coefs * B2N(r.D) + r.coefs * B2N(r.DD)
MFCCDimension(r) ==
    B2N(r.e) + B2N(r.De) + B2N(r.DDe) + r.coefs
    + r.coefs * B2N(r.D) + r.coefs * B2N(r.DD)

LeafDimension(r) ==
    IF r.kind = "ZCR" THEN ZCRDimension(r) ELSE MFCCDimension(r)

\* definition() of a leaf object whose self.sample_rate_ is sr: reading the
\* missing attribute raises AttributeError
LeafDefinition(r, sr) ==
    IF sr = Unset
    THEN [err |-> "AttributeError", instr |-> <<>>]
    ELSE [err |-> "", instr |->
             IF r.kind = "ZCR" THEN ZCRDefinition(r, sr)
                               ELSE MFCCDefinition(r, sr)]

\* YaafeCompound.definition: the children's definitions, in order, each child
\* reading its own self.sample_rate_
CompoundDefinition(c, ls, srs) ==
    LET parts == [i \in 1..Len(c.extractors) |->
                     LeafDefinition(ls[c.extractors[i]],
                                    srs[c.extractors[i]])]
    IN  IF \E i \in 1..Len(parts) : parts[i].err # ""
        THEN [err |-> "AttributeError", instr |-> <<>>]
        ELSE [err |-> "",
              instr |-> Flatten([i \in 1..Len(parts) |-> parts[i].instr])]

CompoundDimension(c, ls) ==
    SumSeq([i \in 1..Len(c.extractors) |-> LeafDimension(ls[c.extractors[i]])])

\* self.definition() / self.dimension() of object o, given the attributes srs
Definition(o, c, ls, srs) ==
    IF o = CompoundId THEN CompoundDefinition(c, ls, srs)
                      ELSE LeafDefinition(ls[o], srs[o])

Dimension(o, c, ls) ==
    IF o = CompoundId THEN CompoundDimension(c, ls) ELSE LeafDimension(ls[o])

Duration(o, c, ls) == IF o = CompoundId THEN c.duration ELSE ls[o].duration
Step(o, c, ls) == IF o = CompoundId THEN c.step ELSE ls[o].step

\* YaafeCompound.__init__: the two asserts
CompoundInitOkDurationOnly(extractors, duration, step, ls) ==
    \A i \in 1..Len(extractors) : ls[extractors[i]].duration = duration
CompoundInitOk(extractors, duration, step, ls) ==
    /\ \A i \in 1..Len(extractors) : ls[extractors[i]].duration = duration
    /\ \A i \in 1..Len(extractors) : ls[extractors[i]].step = step

\* ---------------------------------------------------------------- engine
FeatureNames == {"zcr", "mfcc", "mfcc_d", "mfcc_dd"}

NoEngine == [sr |-> Unset, flow |-> <<>>]

\* the block the engine computes for one loaded instruction: as many columns
\* as the instruction declares (CepsNbCoeffs; a ZCR is one column)
Block(ins) ==
    [name |-> ins.name,
     cols |-> IF ins.feat = "ZCR" THEN 1 ELSE ins.nbCoeffs,
     blockSize |-> ins.blockSize, stepSize |-> ins.stepSize]

\* engine_.processAudio(y)[name]: the engine answers by name, so of several
\* loaded instructions with one name it holds one (the first or the last)
Feature(flow, name, keepLast) ==
    LET at == {i \in 1..Len(flow) : flow[i].name = name}
        pick == IF keepLast
                THEN CHOOSE i \in at : \A j \in at : j <= i
                ELSE CHOOSE i \in at : \A j \in at : i <= j
    IN  Block(flow[pick])

HasFeature(flow, name) == \E i \in 1..Len(flow) : flow[i].name = name

\* ---------------------------------------------------------------- extract
\* line 97: the data flow is rebuilt when the attribute is missing or differs
NeedsRebuildOnlyFirst(cached, sample_rate) == cached = Unset
NeedsRebuild(cached, sample_rate) ==
    cached = Unset \/ cached # sample_rate

\* lines 100-102: the asserts on addFeature, in definition order; the first
\* rejected instruction raises AssertionError
PlanErrorIgnored(instr, rejected) == ""
PlanError(instr, rejected) ==
    IF \E i \in 1..Len(instr) : instr[i].name \in rejected
    THEN "AssertionError" ELSE ""

\* line 111: y[:, channel - 1] on an array of nch columns; numpy counts a
\* negative index from the end and raises IndexError outside -nch..nch-1.
\* The result is the 1-based column read, 0 for IndexError.
SelectChannel(nch, channel) ==
    LET idx == channel - 1
    IN  IF idx >= 0 /\ idx < nch THEN idx + 1
        ELSE IF idx < 0 /\ idx >= -nch THEN nch + idx + 1
        ELSE 0

ChannelArgs == (-MaxChannels)..(MaxChannels + 1)

\* pysndfile.sndio.read(wav): IOError, or a signal of nch channels at sr
Reads(rates, channels) ==
    {[ok |-> FALSE, sr |-> Unset, nch |-> 0]}
    \cup {[ok |-> TRUE, sr |-> sr, nch |-> n] : sr \in rates, n \in channels}

\* what the engine refuses in one call: nothing, or one feature name
RejectSets == {{}} \cup {{n} : n \in FeatureNames}

HasDuplicates(instr) ==
    \E i, j \in 1..Len(instr) : i < j /\ instr[i].name = instr[j].name

NoLast == [op |-> "none", obj |-> CompoundId, extractors |-> <<>>,
           sr |-> Unset, rebuilt |-> FALSE, rejected |-> {},
           plan |-> <<>>, asm |-> <<>>,
           nch |-> 0, channel |-> 0, selected |-> 0,
           outcome |-> "", matrix |-> <<>>]

Exists(o) == o \in Leaf \/ compound.exists

\* YaafeFeatureExtractor.__call__ on object o.  read: what pysndfile answers;
\* channel: item.get('channel', 1); rejected: the feature names addFeature
\* refuses; keepLast: see Feature (it matters for duplicate names only).
\* Each \E over a one-element set names an intermediate value of the method.
Call(o, read, channel, rejected, keepLast) ==
    /\ Exists(o)
    /\ \E need \in {NeedsRebuild(sample_rate_[o], read.sr)} :
       \E srs \in {IF need THEN [sample_rate_ EXCEPT ![o] = read.sr]
                           ELSE sample_rate_} :
       \E def \in {Definition(o, compound, leaves, srs)} :
       \E planErr \in {IF ~need THEN ""
                       ELSE IF def.err # "" THEN def.err
                       ELSE PlanError(def.instr, rejected)} :
       \E eng \in {IF need /\ planErr = ""
                   THEN [engine_ EXCEPT
                           ![o] = [sr |-> read.sr, flow |-> def.instr]]
                   ELSE engine_} :
       \E flow \in {eng[o].flow} :
       \E sel \in {SelectChannel(read.nch, channel)} :
       LET missing == \E i \in 1..Len(def.instr) :
                          ~HasFeature(flow, def.instr[i].name)
           base == [NoLast EXCEPT !.op = "call", !.obj = o]
           seen == [base EXCEPT !.sr = read.sr, !.rebuilt = need,
                       !.rejected = IF need THEN rejected ELSE {},
                       !.plan = IF need THEN def.instr ELSE <<>>]
           chan == [seen EXCEPT !.nch = read.nch, !.channel = channel,
                       !.selected = sel]
       IN  /\ keepLast => HasDuplicates(flow)
           /\ IF ~read.ok
              THEN /\ last' = [base EXCEPT
                                 !.outcome = "PyannoteFeatureExtractionError"]
                   /\ UNCHANGED <<sample_rate_, engine_>>
              ELSE /\ sample_rate_' = srs
                   /\ engine_' = eng
                   /\ last' =
                        IF planErr # "" THEN [seen EXCEPT !.outcome = planErr]
                        ELSE IF sel = 0
                             THEN [chan EXCEPT !.outcome = "IndexError"]
                        ELSE IF def.err # ""
                             THEN [chan EXCEPT !.outcome = def.err]
                        ELSE IF missing
                             THEN [chan EXCEPT !.asm = def.instr,
                                               !.outcome = "KeyError"]
                        ELSE [chan EXCEPT
                                !.asm = def.instr, !.outcome = "ok",
                                !.matrix = [i \in 1..Len(def.instr) |->
                                    Feature(flow, def.instr[i].name, keepLast)]]
    /\ UNCHANGED <<leaves, compound, frames>>

\* YaafeCompound(extractors, duration, step)
CompoundInit(extractors, duration, step) ==
    /\ ~compound.exists
    /\ LET ok == CompoundInitOk(extractors, duration, step, leaves)
           base == [NoLast EXCEPT !.op = "construct",
                                  !.extractors = extractors]
       IN  /\ compound' = IF ok
                          THEN [exists |-> TRUE, extractors |-> extractors,
                                duration |-> duration, step |-> step]
                          ELSE compound
           /\ last' = [base EXCEPT
                         !.outcome = IF ok THEN "ok" ELSE "AssertionError"]
    /\ UNCHANGED <<leaves, sample_rate_, engine_, frames>>

\* the lists of 1..MaxChildren extractors a caller builds from the objects S
ChildListsOver(S) ==
    UNION {[1..n -> S] : n \in 1..MaxChildren}
ChildLists == ChildListsOver(Leaf)

\* ---------------------------------------------------------------- frames
\* SimpleSegmentationModel.num_frames, the body under @lru_cache
NumFramesCeil(num_samples, hop_length, n_fft, center) ==
    IF center THEN (num_samples + hop_length) \div hop_length
    ELSE 1 + (num_samples - n_fft + hop_length - 1) \div hop_length
NumFramesBody(num_samples, hop_length, n_fft, center) ==
    IF center THEN 1 + num_samples \div hop_length
    ELSE 1 + (num_samples - n_fft) \div hop_length

NoFrames == [hop_length |-> 1, n_fft |-> 1, center |-> TRUE,
             cache |-> {}, n |-> 0, result |-> 0, called |-> FALSE,
             hit |-> FALSE]

\* model.num_frames(num_samples): lru_cache answers a repeated argument from
\* its table and calls the body otherwise
num_frames(num_samples) ==
    /\ LET known == {c \in frames.cache : c.n = num_samples}
           value == IF known # {}
                    THEN (CHOOSE c \in known : TRUE).v
                    ELSE NumFramesBody(num_samples, frames.hop_length,
                                       frames.n_fft, frames.center)
       IN  frames' = [frames EXCEPT
                        !.cache = @ \cup {[n |-> num_samples, v |-> value]},
                        !.n = num_samples, !.result = value,
                        !.called = TRUE, !.hit = (known # {})]
    /\ UNCHANGED <<leaves, compound, sample_rate_, engine_, last>>

\* ---------------------------------------------------------------- runs
\* the recipes of the extractor runs: both kinds, both steps
SomeRecipes ==
    {ZCR(d, s) : d \in Durations, s \in Steps}
    \cup {MFCC(DefaultDuration, DefaultStep, TRUE, 1, FALSE, FALSE, TRUE, FALSE)}

\* every MFCC flag combination with 1..MaxCoefs coefficients, and the ZCR
AllRecipes ==
    {ZCR(DefaultDuration, DefaultStep)}
    \cup {MFCC(DefaultDuration, DefaultStep, e, n, De, DDe, D, DD) :
            e \in BOOLEAN, n \in 1..MaxCoefs, De \in BOOLEAN,
            DDe \in BOOLEAN, D \in BOOLEAN, DD \in BOOLEAN}

Fresh ==
    /\ compound = NoCompound
    /\ sample_rate_ = [o \in Objects |-> Unset]
    /\ engine_ = [o \in Objects |-> NoEngine]
    /\ last = NoLast

\* extractor runs: every sample rate sequence, with load failures and
\* rejections, on leaf a and on the compounds built from it
Init ==
    /\ leaves \in {[a |-> r, b |-> ZCR(DefaultDuration, DefaultStep)] :
                     r \in SomeRecipes}
    /\ Fresh
    /\ frames = NoFrames

Next ==
    \/ \E x \in ChildListsOver({"a"}), d \in Durations, s \in Steps :
           CompoundInit(x, d, s)
    \/ \E o \in {"a", CompoundId}, read \in Reads(SampleRates, {1}),
          rejected \in RejectSets, keepLast \in BOOLEAN :
           Call(o, read, 1, rejected, keepLast)

Spec == Init /\ [][Next]_vars

\* construction and channel selection: every list of the two leaves, every
\* channel argument on every channel count
InitChannel ==
    /\ leaves \in {[a |-> r, b |-> ZCR(DefaultDuration, DefaultStep)] :
                     r \in SomeRecipes}
    /\ Fresh
    /\ frames = NoFrames

NextChannel ==
    \/ \E x \in ChildLists, d \in Durations, s \in Steps :
           CompoundInit(x, d, s)
    \/ \E o \in Objects, read \in Reads({RateTable[1]}, 1..MaxChannels),
          channel \in ChannelArgs :
           Call(o, read, channel, {}, FALSE)

SpecChannel == InitChannel /\ [][NextChannel]_vars

\* feature assembly: every recipe, alone and in compounds
InitRecipes ==
    /\ leaves \in {[a |-> r, b |-> MFCC(DefaultDuration, DefaultStep,
                                        TRUE, MaxCoefs, FALSE, FALSE,
                                        FALSE, FALSE)] :
                     r \in AllRecipes}
    /\ Fresh
    /\ frames = NoFrames

NextRecipes ==
    \/ \E x \in ChildLists :
           CompoundInit(x, DefaultDuration, DefaultStep)
    \/ \E o \in Objects, read \in Reads({RateTable[1]}, {1}),
          keepLast \in BOOLEAN :
           Call(o, read, 1, {}, keepLast)

SpecRecipes == InitRecipes /\ [][NextRecipes]_vars

\* frame counts: every transform configuration, every input length
InitFrames ==
    /\ leaves = [a |-> ZCR(DefaultDuration, DefaultStep),
                 b |-> ZCR(DefaultDuration, DefaultStep)]
    /\ Fresh
    /\ \E h \in 1..MaxHop, w \in 1..MaxWin, c \in BOOLEAN :
           frames = [NoFrames EXCEPT !.hop_length = h, !.n_fft = w,
                                     !.center = c]

NextFrames == \E n \in 0..MaxSamples : num_frames(n)

SpecFrames == InitFrames /\ [][NextFrames]_vars

\* ---------------------------------------------------------------- claims
Called == last.op = "call" /\ last.outcome # "PyannoteFeatureExtractionError"

Names(instr) == [i \in 1..Len(instr) |-> instr[i].name]

\* the instructions of object o's recipe when every object stores rate sr
InstructionsAt(o, sr) ==
    Definition(o, compound, leaves, [x \in Objects |-> sr]).instr

\* C1: a call that read a signal rebuilds the engine configuration exactly
\* when the object has no cached sample rate or a different one; a rebuild
\* caches the observed rate and, when it completes, loads the recipe's
\* instructions; a call at the cached rate leaves the cached rate and the
\* loaded configuration as they were.
C1_RebuildExactlyOnRateChange ==
    [][(last'.op = "call"
        /\ last'.outcome # "PyannoteFeatureExtractionError") =>
          LET o == last'.obj IN
          /\ last'.rebuilt <=> (sample_rate_[o] = Unset
                                \/ sample_rate_[o] # last'.sr)
          /\ last'.rebuilt => sample_rate_'[o] = last'.sr
          /\ (last'.rebuilt /\ last'.outcome = "ok") =>
                 engine_'[o] = [sr |-> last'.sr, flow |-> last'.plan]
          /\ ~last'.rebuilt => /\ sample_rate_'[o] = sample_rate_[o]
                               /\ engine_'[o] = engine_[o]]_vars

\* a call at the cached rate that went through without a rebuild
C1_Witness ==
    /\ Called /\ ~last.rebuilt /\ last.outcome = "ok"
    /\ sample_rate_[last.obj] = last.sr

\* C2: every instruction a call uses, for the engine plan and for the output
\* columns, has its block and step size computed from the sample rate read in
\* that call, and no call fails on an unset sample rate.
C2_InstructionsUseObservedRate ==
    Called =>
      /\ last.outcome # "AttributeError"
      /\ \A ins \in {last.plan[i] : i \in 1..Len(last.plan)}
                \cup {last.asm[i] : i \in 1..Len(last.asm)} :
            /\ ins.blockSize =
                 BlockSize(last.sr, Duration(last.obj, compound, leaves))
            /\ ins.stepSize =
                 BlockSize(last.sr, Step(last.obj, compound, leaves))

\* C3: a call that reaches channel selection with a channel argument outside
\* 1..nch fails and returns no matrix.
C3_ChannelOutOfRangeFails ==
    (Called /\ last.nch >= 1 /\ last.channel \notin 1..last.nch) =>
        last.outcome = "IndexError" /\ last.matrix = <<>>

\* C4: a rebuild in which the engine refuses one of the recipe's instructions
\* ends the call with the assertion's error: nothing is assembled, no matrix
\* is returned, and the engine holds no flow built in that call.
C4_RejectedInstructionAborts ==
    [][(last'.op = "call" /\ last'.rebuilt
        /\ \E i \in 1..Len(last'.plan) :
              last'.plan[i].name \in last'.rejected) =>
          /\ last'.outcome = "AssertionError"
          /\ last'.asm = <<>> /\ last'.matrix = <<>>
          /\ engine_'[last'.obj] = engine_[last'.obj]]_vars

\* a rebuild that was refused
C4_Witness ==
    /\ Called /\ last.rebuilt /\ last.outcome = "AssertionError"
    /\ \E i \in 1..Len(last.plan) : last.plan[i].name \in last.rejected

\* the engine answered every instruction with a block of the declared width
Faithful ==
    \A i \in 1..Len(last.asm) :
        last.matrix[i].cols = IF last.asm[i].feat = "ZCR" THEN 1
                              ELSE last.asm[i].nbCoeffs

\* C5: when the engine answers every instruction with a block of the declared
\* width, the returned matrix is the blocks in definition order and has
\* dimension() columns.
C5_MatrixMatchesDimension ==
    (Called /\ last.outcome = "ok" /\ Faithful) =>
        /\ Len(last.matrix) = Len(last.asm)
        /\ Names(last.matrix) = Names(last.asm)
        /\ SumSeq([i \in 1..Len(last.matrix) |-> last.matrix[i].cols])
             = Dimension(last.obj, compound, leaves)

\* a compound of an MFCC with every block and a second MFCC returned a matrix
C5_Witness ==
    /\ Called /\ last.outcome = "ok" /\ Faithful
    /\ last.obj = CompoundId
    /\ Len(last.matrix) >= 4
    /\ \E i \in 1..Len(last.asm) : last.asm[i].name = "mfcc_dd"

\* C6: the instructions a call gets from definition() are the children's
\* instructions in child order and no two of them share a name.
C6_NamesUnique ==
    Called =>
      /\ ~HasDuplicates(last.plan) /\ ~HasDuplicates(last.asm)
      /\ (last.obj = CompoundId /\ last.asm # <<>>) =>
            last.asm = Flatten([i \in 1..Len(compound.extractors) |->
                          LeafDefinition(leaves[compound.extractors[i]],
                              sample_rate_[compound.extractors[i]]).instr])

\* x is a nearest integer of p / 1000
Nearest(x, p) ==
    /\ 2 * (x * 1000 - p) <= 1000
    /\ 2 * (p - x * 1000) <= 1000

\* x is p / 1000 rounded down
Floor(x, p) == x * 1000 <= p /\ p < (x + 1) * 1000

\* C7 as stated: every instruction of a ZCR or MFCC object called at rate sr
\* has block_size = round(sr * duration) and step_size = round(sr * step).
C7_SizesRounded ==
    (Called /\ last.obj \in Leaf) =>
        \A i \in 1..Len(last.plan) :
            /\ Nearest(last.plan[i].blockSize,
                       last.sr * leaves[last.obj].duration)
            /\ Nearest(last.plan[i].stepSize,
                       last.sr * leaves[last.obj].step)

\* C7 amended: block_size and step_size are the products rounded down.
C7_SizesTruncated ==
    (Called /\ last.obj \in Leaf) =>
        \A i \in 1..Len(last.plan) :
            /\ Floor(last.plan[i].blockSize,
                     last.sr * leaves[last.obj].duration)
            /\ Floor(last.plan[i].stepSize,
                     last.sr * leaves[last.obj].step)

\* a leaf built its instructions at a rate whose product with the duration
\* has a fractional part above one half
C7_Witness ==
    /\ Called /\ last.obj \in Leaf /\ last.plan # <<>>
    /\ (last.sr * leaves[last.obj].duration) % 1000 > 500

\* f is the frame count of n samples: frame f is the last one that starts at
\* or before the end of the (centered) signal, or that fits in it (otherwise)
IsFrameCount(f, n) ==
    IF frames.center
    THEN (f - 1) * frames.hop_length <= n /\ n < f * frames.hop_length
    ELSE /\ (f - 1) * frames.hop_length <= n - frames.n_fft
         /\ n - frames.n_fft < f * frames.hop_length

\* C8: num_frames(n) is 1 + n // hop when centered and
\* 1 + (n - window) // hop otherwise, which is 0 or less when n < window, and
\* a repeated call answers what the first call answered.
C8_NumFrames ==
    frames.called =>
      /\ IsFrameCount(frames.result, frames.n)
      /\ (~frames.center /\ frames.n < frames.n_fft) => frames.result <= 0
      /\ \A c \in frames.cache : IsFrameCount(c.v, c.n)
      /\ \A c, d \in frames.cache : c.n = d.n => c.v = d.v

\* a repeated call, not centered, on a signal shorter than the window
C8_Witness ==
    /\ frames.called /\ frames.hit
    /\ ~frames.center /\ frames.n < frames.n_fft
    /\ frames.result <= 0

Disagree(x) ==
    \E i, j \in 1..Len(x) :
        \/ leaves[x[i]].duration # leaves[x[j]].duration
        \/ leaves[x[i]].step # leaves[x[j]].step

\* C9: constructing a compound from children that disagree on
\* (duration, step) fails; no compound with disagreeing children exists, and
\* no call ends with the constructor's assertion.
C9_CompoundChildrenAgree ==
    /\ compound.exists => ~Disagree(compound.extractors)
    /\ (last.op = "construct" /\ Disagree(last.extractors)) =>
           last.outcome = "AssertionError"
    /\ (last.op = "call" /\ last.rejected = {}) =>
           last.outcome # "AssertionError"

\* a construction from disagreeing children that failed
C9_Witness ==
    /\ last.op = "construct" /\ Disagree(last.extractors)
    /\ last.outcome = "AssertionError" /\ ~compound.exists

\* C10: an object with a cached sample rate has its engine loaded with the
\* recipe's instructions at that rate.
C10_CachedRateMeansLoaded ==
    \A o \in Objects :
        sample_rate_[o] # Unset =>
            engine_[o] = [sr |-> sample_rate_[o],
                          flow |-> InstructionsAt(o, sample_rate_[o])]

====
